---- MODULE Spec2Model ----
(***************************************************************************)
(* Model of dropshot's examples/pagination-multi.rs: a paginated listing   *)
(* endpoint over a ProjectCollection (two BTreeMaps), with three scan      *)
(* modes and page selectors carried in continuation tokens.                *)
(*                                                                         *)
(* Names (Rust Strings) are modelled by naturals with the same order,      *)
(* mtimes (DateTime<Utc>) by naturals.  A BTreeMap is a function from its  *)
(* key set to its values; iteration over it is the sequence of its entries *)
(* in ascending key order.                                                 *)
(***************************************************************************)
EXTENDS Integers, Sequences, FiniteSets, TLC

\* ----- bounds of the model -----
MaxName == 3
MaxMtime == 2
MaxReqLimit == 2

\* ----- program constants -----
DEFAULT_LIMIT == 5
MAX_LIMIT == 100

Names == 1..MaxName
Mtimes == 1..MaxMtime

\* struct Project { name, mtime }
Project == [name : Names, mtime : Mtimes]

\* enum ProjectScanMode
ProjectScanMode == {"ByNameAscending", "ByNameDescending", "ByMtimeDescending"}

\* enum PaginationOrder
PaginationOrder == {"Ascending", "Descending"}

\* enum ProjectScanPageSelector { Name(order, name), MtimeName(order, mtime, name) }
ProjectScanPageSelector ==
    [variant : {"Name"}, order : PaginationOrder, name : Names]
    \cup [variant : {"MtimeName"}, order : PaginationOrder,
          mtime : Mtimes, name : Names]

\* the outcome of a panic!() in a conversion
Panic == "panic"

\* ----- generic sequence helpers (std iterator adaptors) -----

\* Iterator::rev over a finite double-ended iterator
Rev(s) == [i \in 1..Len(s) |-> s[Len(s) + 1 - i]]

\* variant: one item more than asked for is taken
Take_one_more(s, n) == IF Len(s) <= n + 1 THEN s ELSE SubSeq(s, 1, n + 1)

\* Iterator::take(n)
Take(s, n) == IF Len(s) <= n THEN s ELSE SubSeq(s, 1, n)

\* Ord for String (names) and for (DateTime<Utc>, String): tuples compare
\* lexicographically, first component first
NameLt(a, b) == a < b

TupleLt(a, b) == a[1] < b[1] \/ (a[1] = b[1] /\ a[2] < b[2])

\* The keys of a BTreeMap<String, _> in iteration order (ascending): the
\* keys below the middle key, the middle key, the keys above it
RECURSIVE NameKeysAsc(_)
NameKeysAsc(S) ==
    IF S = {} THEN <<>>
    ELSE LET half == Cardinality(S) \div 2
             m == CHOOSE k \in S :
                     Cardinality({j \in S : NameLt(j, k)}) = half
         IN NameKeysAsc({j \in S : NameLt(j, m)}) \o <<m>>
               \o NameKeysAsc({j \in S : NameLt(m, j)})

\* The keys of a BTreeMap<(DateTime<Utc>, String), _> in iteration order
RECURSIVE TupleKeysAsc(_)
TupleKeysAsc(S) ==
    IF S = {} THEN <<>>
    ELSE LET half == Cardinality(S) \div 2
             m == CHOOSE k \in S :
                     Cardinality({j \in S : TupleLt(j, k)}) = half
         IN TupleKeysAsc({j \in S : TupleLt(j, m)}) \o <<m>>
               \o TupleKeysAsc({j \in S : TupleLt(m, j)})

\* std::ops::Bound
Unbounded == [kind |-> "Unbounded"]
Excluded(k) == [kind |-> "Excluded", key |-> k]
Included(k) == [kind |-> "Included", key |-> k]

\* BTreeMap::iter on by_name: the (key, value) entries in ascending key order
NameIter(map) ==
    LET ks == NameKeysAsc(DOMAIN map)
    IN [i \in 1..Len(ks) |-> <<ks[i], map[ks[i]]>>]

\* BTreeMap::iter on by_mtime
MtimeIter(map) ==
    LET ks == TupleKeysAsc(DOMAIN map)
    IN [i \in 1..Len(ks) |-> <<ks[i], map[ks[i]]>>]

\* BTreeMap::range((lo, hi)) on by_name
NameRange(map, lo, hi) ==
    LET inLo(k) == CASE lo.kind = "Unbounded" -> TRUE
                     [] lo.kind = "Excluded" -> NameLt(lo.key, k)
                     [] lo.kind = "Included" -> ~NameLt(k, lo.key)
        inHi(k) == CASE hi.kind = "Unbounded" -> TRUE
                     [] hi.kind = "Excluded" -> NameLt(k, hi.key)
                     [] hi.kind = "Included" -> ~NameLt(hi.key, k)
        ks == NameKeysAsc({k \in DOMAIN map : inLo(k) /\ inHi(k)})
    IN [i \in 1..Len(ks) |-> <<ks[i], map[ks[i]]>>]

\* BTreeMap::range((lo, hi)) on by_mtime
MtimeRange(map, lo, hi) ==
    LET inLo(k) == CASE lo.kind = "Unbounded" -> TRUE
                     [] lo.kind = "Excluded" -> TupleLt(lo.key, k)
                     [] lo.kind = "Included" -> ~TupleLt(k, lo.key)
        inHi(k) == CASE hi.kind = "Unbounded" -> TRUE
                     [] hi.kind = "Excluded" -> TupleLt(k, hi.key)
                     [] hi.kind = "Included" -> ~TupleLt(hi.key, k)
        ks == TupleKeysAsc({k \in DOMAIN map : inLo(k) /\ inHi(k)})
    IN [i \in 1..Len(ks) |-> <<ks[i], map[ks[i]]>>]

\* ----- impl ProjectCollection -----

\* make_iter: map each (key, project) entry to the project
make_iter(iter) == [i \in 1..Len(iter) |-> iter[i][2]]

iter_by_name_asc(data) == make_iter(NameIter(data.by_name))

iter_by_name_desc(data) == make_iter(Rev(NameIter(data.by_name)))

\* variant: the boundary item is included in the resumed range
iter_by_name_asc_from_inclusive(data, last_seen) ==
    make_iter(NameRange(data.by_name, Included(last_seen), Unbounded))

iter_by_name_asc_from(data, last_seen) ==
    make_iter(NameRange(data.by_name, Excluded(last_seen), Unbounded))

\* variant: the boundary item is included in the resumed descending range
iter_by_name_desc_from_inclusive(data, last_seen) ==
    make_iter(Rev(NameRange(data.by_name, Unbounded, Included(last_seen))))

iter_by_name_desc_from(data, last_seen) ==
    make_iter(Rev(NameRange(data.by_name, Unbounded, Excluded(last_seen))))

iter_by_mtime_asc(data) == make_iter(MtimeIter(data.by_mtime))

iter_by_mtime_desc(data) == make_iter(Rev(MtimeIter(data.by_mtime)))

iter_by_mtime_asc_from(data, last_mtime, last_name) ==
    LET last_seen == <<last_mtime, last_name>>
    IN make_iter(MtimeRange(data.by_mtime, Excluded(last_seen), Unbounded))

\* variant: the resumed range is bounded by the mtime alone, without the name
iter_by_mtime_desc_from_mtime_only(data, last_mtime, last_name) ==
    LET last_seen == <<last_mtime, 0>>
    IN make_iter(Rev(MtimeRange(data.by_mtime, Unbounded, Excluded(last_seen))))

\* variant: the boundary item is included in the resumed by-mtime range
iter_by_mtime_desc_from_inclusive(data, last_mtime, last_name) ==
    LET last_seen == <<last_mtime, last_name>>
    IN make_iter(Rev(MtimeRange(data.by_mtime, Unbounded, Included(last_seen))))

iter_by_mtime_desc_from(data, last_mtime, last_name) ==
    LET last_seen == <<last_mtime, last_name>>
    IN make_iter(Rev(MtimeRange(data.by_mtime, Unbounded, Excluded(last_seen))))

\* ----- impl From<&ProjectScanPageSelector> for ProjectScanMode -----
ProjectScanModeFrom(p) ==
    CASE p.variant = "Name" /\ p.order = "Ascending" -> "ByNameAscending"
      [] p.variant = "Name" /\ p.order = "Descending" -> "ByNameDescending"
      [] p.variant = "MtimeName" /\ p.order = "Descending" -> "ByMtimeDescending"
      [] OTHER -> Panic

\* ----- impl PaginatedResource for ProjectScan -----
\* variant: the two by-name modes build each other's selector
page_selector_for_flipped(last_item, scan_mode) ==
    CASE scan_mode = "ByNameAscending" ->
            [variant |-> "Name", order |-> "Descending", name |-> last_item.name]
      [] scan_mode = "ByNameDescending" ->
            [variant |-> "Name", order |-> "Ascending", name |-> last_item.name]
      [] scan_mode = "ByMtimeDescending" ->
            [variant |-> "MtimeName", order |-> "Descending",
             mtime |-> last_item.mtime, name |-> last_item.name]

\* variant: the by-mtime mode builds an ascending selector
page_selector_for_mtime_asc(last_item, scan_mode) ==
    CASE scan_mode = "ByNameAscending" ->
            [variant |-> "Name", order |-> "Ascending", name |-> last_item.name]
      [] scan_mode = "ByNameDescending" ->
            [variant |-> "Name", order |-> "Descending", name |-> last_item.name]
      [] scan_mode = "ByMtimeDescending" ->
            [variant |-> "MtimeName", order |-> "Ascending",
             mtime |-> last_item.mtime, name |-> last_item.name]

\* variant: the by-mtime mode builds a selector without the name of the item
page_selector_for_mtime_without_name(last_item, scan_mode) ==
    CASE scan_mode = "ByNameAscending" ->
            [variant |-> "Name", order |-> "Ascending", name |-> last_item.name]
      [] scan_mode = "ByNameDescending" ->
            [variant |-> "Name", order |-> "Descending", name |-> last_item.name]
      [] scan_mode = "ByMtimeDescending" ->
            [variant |-> "MtimeName", order |-> "Descending",
             mtime |-> last_item.mtime, name |-> 0]

page_selector_for(last_item, scan_mode) ==
    CASE scan_mode = "ByNameAscending" ->
            [variant |-> "Name", order |-> "Ascending", name |-> last_item.name]
      [] scan_mode = "ByNameDescending" ->
            [variant |-> "Name", order |-> "Descending", name |-> last_item.name]
      [] scan_mode = "ByMtimeDescending" ->
            [variant |-> "MtimeName", order |-> "Descending",
             mtime |-> last_item.mtime, name |-> last_item.name]

\* ----- the page selector codec (serialization of the page token) -----
\* A token is a sequence of naturals: a variant tag, an order tag, then the
\* key tuple.
NoToken == <<>>

VariantTag(v) == IF v = "Name" THEN 1 ELSE 2

OrderTag(o) == IF o = "Ascending" THEN 1 ELSE 2

\* variant: the key tuple of a MtimeName selector is written name first
encode_swapped(s) ==
    IF s.variant = "Name"
    THEN <<VariantTag(s.variant), OrderTag(s.order), s.name>>
    ELSE <<VariantTag(s.variant), OrderTag(s.order), s.name, s.mtime>>

encode(s) ==
    IF s.variant = "Name"
    THEN <<VariantTag(s.variant), OrderTag(s.order), s.name>>
    ELSE <<VariantTag(s.variant), OrderTag(s.order), s.mtime, s.name>>

MalformedToken == [variant |-> "Malformed"]

decode(t) ==
    IF Len(t) = 3 /\ t[1] = 1 /\ t[2] \in {1, 2}
    THEN [variant |-> "Name",
          order |-> IF t[2] = 1 THEN "Ascending" ELSE "Descending",
          name |-> t[3]]
    ELSE IF Len(t) = 4 /\ t[1] = 2 /\ t[2] \in {1, 2}
    THEN [variant |-> "MtimeName",
          order |-> IF t[2] = 1 THEN "Ascending" ELSE "Descending",
          mtime |-> t[3], name |-> t[4]]
    ELSE MalformedToken

\* ----- the endpoint -----
\* Option<NonZero> limit: None is the value 0, Some(l) is l >= 1
NoLimit == 0

\* WhichPage
FirstPage(list_mode) == [which |-> "FirstPage", list_mode |-> list_mode]
NextPage(page_start) == [which |-> "NextPage", page_start |-> page_start]

\* variant: the limit is not clamped to MAX_LIMIT
EffectiveLimit_unclamped(req_limit) ==
    IF req_limit = NoLimit THEN DEFAULT_LIMIT ELSE req_limit

\* lines 156-160: the limit local of example_list_projects.  l.get() as usize
\* keeps the value on a 64-bit target, which is what is modelled.
EffectiveLimit(req_limit) ==
    LET limit == IF req_limit = NoLimit THEN DEFAULT_LIMIT ELSE req_limit
    IN IF limit > MAX_LIMIT THEN MAX_LIMIT ELSE limit

\* variant: a first page without a mode is listed by name descending
FirstPageArm_default_desc(data, list_mode) ==
    CASE list_mode = "None" ->
            <<"ByNameDescending", iter_by_name_desc(data)>>
      [] list_mode = "ByNameAscending" ->
            <<list_mode, iter_by_name_asc(data)>>
      [] list_mode = "ByNameDescending" ->
            <<list_mode, iter_by_name_desc(data)>>
      [] list_mode = "ByMtimeDescending" ->
            <<list_mode, iter_by_mtime_desc(data)>>

\* lines 164-176: the (list_mode, iter) pair of a first-page request
FirstPageArm(data, list_mode) ==
    CASE list_mode = "None" ->
            <<"ByNameAscending", iter_by_name_asc(data)>>
      [] list_mode = "ByNameAscending" ->
            <<list_mode, iter_by_name_asc(data)>>
      [] list_mode = "ByNameDescending" ->
            <<list_mode, iter_by_name_desc(data)>>
      [] list_mode = "ByMtimeDescending" ->
            <<list_mode, iter_by_mtime_desc(data)>>

\* lines 181-200: the iterator of a next-page request
NextPageArm(data, page_start) ==
    CASE page_start.variant = "Name" /\ page_start.order = "Ascending" ->
            iter_by_name_asc_from(data, page_start.name)
      [] page_start.variant = "Name" /\ page_start.order = "Descending" ->
            iter_by_name_desc_from(data, page_start.name)
      [] page_start.variant = "MtimeName" /\ page_start.order = "Ascending" ->
            iter_by_mtime_asc_from(data, page_start.mtime, page_start.name)
      [] page_start.variant = "MtimeName" /\ page_start.order = "Descending" ->
            iter_by_mtime_desc_from(data, page_start.mtime, page_start.name)

\* example_list_projects: the handler's result for a collection and the
\* pagination parameters.  outcome "Ok" is Ok(HttpResponseOkPage(list_mode,
\* projects)); outcome "Panic" is the unwinding out of ProjectScanMode::from
\* (line 180), which comes before the iterator is built.  limit is the value
\* of the handler's local at that point.  The panic unwinds the task of the
\* one request; the server goes on serving.
example_list_projects(data, pag_params) ==
    LET limit == EffectiveLimit(pag_params.limit)
        pp == pag_params.page_params
    IN IF pp.which = "FirstPage"
       THEN LET arm == FirstPageArm(data, pp.list_mode)
            IN [outcome |-> "Ok", list_mode |-> arm[1],
                projects |-> Take(arm[2], limit), limit |-> limit]
       ELSE LET list_mode == ProjectScanModeFrom(pp.page_start)
            IN IF list_mode = Panic
               THEN [outcome |-> "Panic", list_mode |-> "None",
                     projects |-> <<>>, limit |-> limit]
               ELSE [outcome |-> "Ok", list_mode |-> list_mode,
                     projects |-> Take(NextPageArm(data, pp.page_start), limit),
                     limit |-> limit]

\* The serialization of HttpResponseOkPage(list_mode, items): the page and,
\* built from its last item, the token of the next page.  Only the list mode
\* and the items are handed over (line 207), not the limit.
NextPageToken(list_mode, items) ==
    IF items = <<>> THEN NoToken
    ELSE encode(page_selector_for(items[Len(items)], list_mode))

\* A request as it arrives: first page with an optional mode, or a page token,
\* and an optional limit
FirstPageRequest(mode, limit) ==
    [page |-> "first", list_mode |-> mode, page_token |-> NoToken,
     limit |-> limit]

NextPageRequest(token, limit) ==
    [page |-> "next", list_mode |-> "None", page_token |-> token,
     limit |-> limit]

ErrorResponse(status) ==
    [status |-> status, list_mode |-> "None", items |-> <<>>,
     next_page |-> NoToken, limit |-> 0]

\* One request through the server: query extraction (token decoding), the
\* handler, and the serialization of its result.  limit is the handler's
\* effective limit (0 when the handler did not run).
Serve(data, request) ==
    LET sel == IF request.page = "next" THEN decode(request.page_token)
               ELSE MalformedToken
    IN IF request.page = "next" /\ sel = MalformedToken
       THEN ErrorResponse("MalformedToken")
       ELSE LET pag_params ==
                    [limit |-> request.limit,
                     page_params |-> IF request.page = "first"
                                     THEN FirstPage(request.list_mode)
                                     ELSE NextPage(sel)]
                r == example_list_projects(data, pag_params)
            IN IF r.outcome = "Panic"
               THEN [ErrorResponse("Panic") EXCEPT !.limit = r.limit]
               ELSE [status |-> "Ok", list_mode |-> r.list_mode,
                     items |-> r.projects,
                     next_page |-> NextPageToken(r.list_mode, r.projects),
                     limit |-> r.limit]

\* ----- state -----
VARIABLES
    by_name,     \* ProjectCollection.by_name: name -> project
    by_mtime,    \* ProjectCollection.by_mtime: (mtime, name) -> project
    serving,     \* main has handed the collection to the running server
    phase,       \* the client's scan: "idle", "following", "done", "failed", "forged"
    req,         \* the client's latest request
    resp,        \* the response to it
    scanMode,    \* the list_mode reported by the first page of the scan
    pages,       \* the pages (item sequences) the scan has received so far
    n,           \* main: the loop variable of the seeding loop
    timestamp,   \* main: the mtime of the next project, in milliseconds
                 \* relative to 2020-07-13T17:35:00Z
    other        \* a second client scanning at the same time: its phase,
                 \* latest request and response, the mode it asked for, the
                 \* list_mode of its first page, its pages and the limits
                 \* of the requests of its scan

vars ==
    <<by_name, by_mtime, serving, phase, req, resp, scanMode, pages,
      n, timestamp, other>>

clientVars == <<phase, req, resp, scanMode, pages>>

mainVars == <<n, timestamp>>

\* the ProjectCollection behind the server's private data
Data == [by_name |-> by_name, by_mtime |-> by_mtime]

\* the limits a request may carry: none, small ones, MAX_LIMIT and above
Limits == {NoLimit} \cup (1..MaxReqLimit) \cup {MAX_LIMIT, MAX_LIMIT + 1}

\* the first-page modes a request may carry: none or one of the three
RequestModes == {"None"} \cup ProjectScanMode

\* tokens a client may make up: every well-formed one, and malformed ones
ForgedTokens ==
    {encode(s) : s \in ProjectScanPageSelector} \cup {<<3, 1, 1>>, <<1, 1>>}

NoRequest ==
    [page |-> "none", list_mode |-> "None", page_token |-> NoToken,
     limit |-> NoLimit]

\* a client that has asked nothing yet
IdleClient ==
    [phase |-> "idle", req |-> NoRequest, resp |-> ErrorResponse("None"),
     mode |-> "None", scanMode |-> "None", pages |-> <<>>, limits |-> <<>>]

\* main, lines 220-223: both maps empty; the client has asked nothing yet
Init ==
    /\ by_name = <<>>
    /\ by_mtime = <<>>
    /\ serving = FALSE
    /\ phase = "idle"
    /\ req = NoRequest
    /\ resp = ErrorResponse("None")
    /\ scanMode = "None"
    /\ pages = <<>>
    /\ n = 1
    /\ timestamp = 0
    /\ other = IdleClient

\* BTreeMap::insert: the map with key k bound to v (replacing an older value)
MapInsert(map, k, v) ==
    [x \in (DOMAIN map) \cup {k} |-> IF x = k THEN v ELSE map[x]]

\* main, lines 229-243, one round of the seeding loop: a project with a name
\* not used before goes into both maps.  The names and mtimes main picks are
\* generalised to any fresh name and any mtime.
InsertProject(name, mtime) ==
    /\ ~serving
    /\ name \notin DOMAIN by_name
    /\ LET project == [name |-> name, mtime |-> mtime]
       IN /\ by_name' = MapInsert(by_name, name, project)
          /\ by_mtime' = MapInsert(by_mtime, <<project.mtime, name>>, project)
    /\ UNCHANGED <<serving, clientVars, mainVars, other>>

\* main, lines 249-263: the collection is frozen behind an Arc and the server
\* starts to answer requests
StartServer ==
    /\ ~serving
    /\ serving' = TRUE
    /\ UNCHANGED <<by_name, by_mtime, clientVars, mainVars, other>>

\* the client asks for the first page of a scan
RequestFirstPage(mode, limit) ==
    /\ serving
    /\ LET rq == FirstPageRequest(mode, limit)
           rs == Serve(Data, rq)
       IN /\ req' = rq
          /\ resp' = rs
          /\ scanMode' = rs.list_mode
          /\ pages' = <<rs.items>>
          /\ phase' = IF rs.next_page = NoToken THEN "done" ELSE "following"
    /\ UNCHANGED <<by_name, by_mtime, serving, mainVars, other>>

\* variant: the projects of the page are taken out of the collection
RequestNextPage_consuming(limit) ==
    /\ serving
    /\ phase = "following"
    /\ LET rq == NextPageRequest(resp.next_page, limit)
           rs == Serve(Data, rq)
           taken == {rs.items[i] : i \in 1..Len(rs.items)}
       IN /\ req' = rq
          /\ resp' = rs
          /\ pages' = Append(pages, rs.items)
          /\ phase' = IF rs.status # "Ok" THEN "failed"
                      ELSE IF rs.next_page = NoToken THEN "done"
                      ELSE "following"
          /\ by_name' = [k \in {j \in DOMAIN by_name : by_name[j] \notin taken}
                            |-> by_name[k]]
          /\ by_mtime' = [k \in {j \in DOMAIN by_mtime : by_mtime[j] \notin taken}
                            |-> by_mtime[k]]
    /\ UNCHANGED <<serving, scanMode, mainVars, other>>

\* the client follows the token of the page it received last
RequestNextPage(limit) ==
    /\ serving
    /\ phase = "following"
    /\ LET rq == NextPageRequest(resp.next_page, limit)
           rs == Serve(Data, rq)
       IN /\ req' = rq
          /\ resp' = rs
          /\ pages' = Append(pages, rs.items)
          /\ phase' = IF rs.status # "Ok" THEN "failed"
                      ELSE IF rs.next_page = NoToken THEN "done"
                      ELSE "following"
    /\ UNCHANGED <<by_name, by_mtime, serving, scanMode, mainVars, other>>

\* the client sends a token of its own making; this ends the scan it was in
RequestForgedPage(token, limit) ==
    /\ serving
    /\ LET rq == NextPageRequest(token, limit)
           rs == Serve(Data, rq)
       IN /\ req' = rq
          /\ resp' = rs
    /\ scanMode' = "None"
    /\ pages' = <<>>
    /\ phase' = "forged"
    /\ UNCHANGED <<by_name, by_mtime, serving, mainVars, other>>

Next ==
    \/ \E name \in Names, mtime \in Mtimes : InsertProject(name, mtime)
    \/ StartServer
    \/ \E mode \in RequestModes, limit \in Limits :
            RequestFirstPage(mode, limit)
    \/ \E limit \in Limits : RequestNextPage(limit)
    \/ \E token \in ForgedTokens, limit \in Limits :
            RequestForgedPage(token, limit)

Spec == Init /\ [][Next]_vars

\* ----- main as written: the seeding loop, then the server -----

\* line 227: for n in 1..1000 (the end of the range is not part of it)
SEED_END == 1000

\* line 239: every project whose n is a multiple of 10 shares its mtime with
\* the next one
SAME_MTIME_EVERY == 10

\* line 228: format!("project{:03}", n).  Names are modelled by naturals in
\* string order; the three zero-padded digits of n, read as a number, keep
\* that order for the n of the loop (n < 1000).
project_name(k) ==
    LET digits == <<(k \div 100) % 10, (k \div 10) % 10, k % 10>>
    IN 100 * digits[1] + 10 * digits[2] + digits[3]

\* variant: the timestamp is stepped before the project goes into by_mtime
SeedStep_key_after_step(seed_end) ==
    /\ ~serving
    /\ n < seed_end
    /\ LET name == project_name(n)
           project == [name |-> name, mtime |-> timestamp]
           stepped == IF n % SAME_MTIME_EVERY # 0 THEN timestamp - 1
                      ELSE timestamp
       IN /\ timestamp' = stepped
          /\ by_name' = MapInsert(by_name, name, project)
          /\ by_mtime' = MapInsert(by_mtime, <<stepped, name>>, project)
    /\ n' = n + 1
    /\ UNCHANGED <<serving, clientVars, other>>

\* lines 227-244: one round of the seeding loop, for a range that ends
\* before seed_end
SeedStep(seed_end) ==
    /\ ~serving
    /\ n < seed_end
    /\ LET name == project_name(n)
           project == [name |-> name, mtime |-> timestamp]
       IN /\ timestamp' = IF n % SAME_MTIME_EVERY # 0 THEN timestamp - 1
                          ELSE timestamp
          /\ by_name' = MapInsert(by_name, name, project)
          /\ by_mtime' = MapInsert(by_mtime, <<project.mtime, name>>, project)
    /\ n' = n + 1
    /\ UNCHANGED <<serving, clientVars, other>>

\* lines 249-263, reached when the loop over a range ending before seed_end
\* is over
StartServerAfterSeeding(seed_end) ==
    /\ n = seed_end
    /\ StartServer

NextMain ==
    \/ SeedStep(SEED_END)
    \/ StartServerAfterSeeding(SEED_END)

SpecMain == Init /\ [][NextMain]_vars

\* ----- two callers scanning at the same time -----

\* bound: the seeding loop of this specification is over a range that ends
\* before ConcSeedEnd
ConcSeedEnd == 4

\* the limits the two callers use
ConcLimits == {NoLimit} \cup (1..MaxReqLimit)

\* the second client asks for the first page of a scan
OtherFirstPage(mode, limit) ==
    /\ serving
    /\ LET rq == FirstPageRequest(mode, limit)
           rs == Serve(Data, rq)
       IN other' = [phase |-> IF rs.next_page = NoToken THEN "done"
                              ELSE "following",
                    req |-> rq, resp |-> rs, mode |-> mode,
                    scanMode |-> rs.list_mode, pages |-> <<rs.items>>,
                    limits |-> <<limit>>]
    /\ UNCHANGED <<by_name, by_mtime, serving, clientVars, mainVars>>

\* variant: the server resumes from the token it issued last, to whichever
\* client, instead of the token of the request
OtherNextPage_shared_cursor(limit) ==
    /\ serving
    /\ other.phase = "following"
    /\ LET token == IF resp.next_page # NoToken THEN resp.next_page
                    ELSE other.resp.next_page
           rq == NextPageRequest(other.resp.next_page, limit)
           rs == Serve(Data, NextPageRequest(token, limit))
       IN other' = [other EXCEPT
                       !.phase = IF rs.status # "Ok" THEN "failed"
                                 ELSE IF rs.next_page = NoToken THEN "done"
                                 ELSE "following",
                       !.req = rq, !.resp = rs,
                       !.pages = Append(@, rs.items),
                       !.limits = Append(@, limit)]
    /\ UNCHANGED <<by_name, by_mtime, serving, clientVars, mainVars>>

\* the second client follows the token of the page it received last
OtherNextPage(limit) ==
    /\ serving
    /\ other.phase = "following"
    /\ LET rq == NextPageRequest(other.resp.next_page, limit)
           rs == Serve(Data, rq)
       IN other' = [other EXCEPT
                       !.phase = IF rs.status # "Ok" THEN "failed"
                                 ELSE IF rs.next_page = NoToken THEN "done"
                                 ELSE "following",
                       !.req = rq, !.resp = rs,
                       !.pages = Append(@, rs.items),
                       !.limits = Append(@, limit)]
    /\ UNCHANGED <<by_name, by_mtime, serving, clientVars, mainVars>>

NextConc ==
    \/ SeedStep(ConcSeedEnd)
    \/ StartServerAfterSeeding(ConcSeedEnd)
    \/ \E mode \in RequestModes, limit \in ConcLimits :
            RequestFirstPage(mode, limit)
    \/ \E limit \in ConcLimits : RequestNextPage(limit)
    \/ \E mode \in RequestModes, limit \in ConcLimits :
            OtherFirstPage(mode, limit)
    \/ \E limit \in ConcLimits : OtherNextPage(limit)

SpecConc == Init /\ [][NextConc]_vars

\* ----- a collection with more than MAX_LIMIT projects -----

\* bound: the seeding loop of this specification is over a range that ends
\* before BigSeedEnd, which leaves MAX_LIMIT projects after a default page
BigSeedEnd == 106

\* the limits the caller uses on the large collection: none (DEFAULT_LIMIT)
\* and one above MAX_LIMIT
BigLimits == {NoLimit, MAX_LIMIT + 1}

NextBig ==
    \/ SeedStep(BigSeedEnd)
    \/ StartServerAfterSeeding(BigSeedEnd)
    \/ \E mode \in RequestModes, limit \in BigLimits :
            RequestFirstPage(mode, limit)
    \/ \E limit \in BigLimits : RequestNextPage(limit)

SpecBig == Init /\ [][NextBig]_vars

\* ----- one caller that scans to the end -----

\* the caller starts its one scan
BeginScan(mode, limit) ==
    /\ phase = "idle"
    /\ RequestFirstPage(mode, limit)

\* the caller follows the token it holds; a scan longer than any scan of a
\* collection of the model can be is not followed further
FollowScan(limit) ==
    /\ Len(pages) <= MaxName + 1
    /\ RequestNextPage(limit)

NextScan ==
    \/ \E name \in Names, mtime \in Mtimes : InsertProject(name, mtime)
    \/ StartServer
    \/ \E mode \in RequestModes, limit \in Limits : BeginScan(mode, limit)
    \/ \E limit \in Limits : FollowScan(limit)

\* FollowScan is enabled exactly in these states (the server answers every
\* request)
CanFollow == serving /\ phase = "following" /\ Len(pages) <= MaxName + 1

\* The caller keeps following the token as long as it has one: weak fairness
\* of FollowScan, WF_vars(\E limit \in Limits : FollowScan(limit)), written
\* out with CanFollow for its enabling condition
FollowFairness ==
    \/ []<>(~CanFollow)
    \/ []<><<\E limit \in Limits : FollowScan(limit)>>_vars

SpecScan == Init /\ [][NextScan]_vars /\ FollowFairness

\* ----- vocabulary of the properties -----

\* the projects of the collection
Items == {by_name[k] : k \in DOMAIN by_name}

RECURSIVE Flatten(_)
Flatten(pp) == IF pp = <<>> THEN <<>> ELSE Head(pp) \o Flatten(Tail(pp))

\* the items the scan has received so far, in the order received
Delivered == Flatten(pages)

\* the items of all pages but the latest
DeliveredBefore == Flatten(SubSeq(pages, 1, Len(pages) - 1))

Range(seq) == {seq[i] : i \in 1..Len(seq)}

NoRepeats(seq) == \A i, j \in 1..Len(seq) : i # j => seq[i] # seq[j]

\* the client is in a scan made of a first page and followed tokens only
InScan == phase \in {"following", "done"}

\* a comes before b in the order a mode is documented to list in (lines 68-75)
DocumentedBefore(mode, a, b) ==
    CASE mode = "ByNameAscending" -> a.name < b.name
      [] mode = "ByNameDescending" -> a.name > b.name
      [] mode = "ByMtimeDescending" ->
            a.mtime > b.mtime \/ (a.mtime = b.mtime /\ a.name < b.name)

ListedInDocumentedOrder(mode, seq) ==
    \A i, j \in 1..Len(seq) : i < j => DocumentedBefore(mode, seq[i], seq[j])

\* ----- claims -----

\* C1: a scan from the first page, following each returned token until none
\* is returned, delivers every item of the collection exactly once, in the
\* order of its mode, whatever the limits of its requests.
C1_ScanDeliversCollectionInModeOrder ==
    phase = "done" =>
        /\ Range(Delivered) = Items
        /\ Len(Delivered) = Cardinality(Items)
        /\ ListedInDocumentedOrder(scanMode, Delivered)

\* C2: in ByMtimeDescending mode, items that share an mtime are each returned
\* exactly once, in an order fixed by their names, and the (mtime, name)
\* boundary of a page excludes exactly the items already returned.
C2_TieBreakExactlyOnce ==
    (InScan /\ scanMode = "ByMtimeDescending") =>
        /\ NoRepeats(Delivered)
        /\ Range(Delivered) \subseteq Items
        /\ \A i, j \in 1..Len(Delivered) :
              (i < j /\ Delivered[i].mtime = Delivered[j].mtime)
                  => Delivered[i].name > Delivered[j].name
        /\ phase = "done" => Range(Delivered) = Items
        /\ phase = "following" =>
              LET sel == decode(resp.next_page)
              IN Range(iter_by_mtime_desc_from(Data, sel.mtime, sel.name))
                    = Items \ Range(Delivered)

C2_Witness ==
    /\ phase = "done"
    /\ scanMode = "ByMtimeDescending"
    /\ req.limit = 1
    /\ \A i \in 1..Len(pages) : Len(pages[i]) <= 1
    /\ \E i, j \in 1..Len(Delivered) :
          i # j /\ Delivered[i].mtime = Delivered[j].mtime

\* C3: ByMtimeDescending lists by mtime descending and, among equal mtimes,
\* by name ascending, on the first page and on every resumed page, within a
\* page and across pages.
C3_MtimeDescThenNameAsc ==
    (InScan /\ scanMode = "ByMtimeDescending") =>
        ListedInDocumentedOrder("ByMtimeDescending", Delivered)

\* C4: a scan continues in the mode it started in: every page reached by
\* following tokens reports the list_mode of the first page, and the mode
\* derived from each issued token is that mode again.
C4_ScanKeepsMode ==
    /\ InScan =>
          /\ resp.status = "Ok"
          /\ resp.list_mode = scanMode
          /\ resp.next_page # NoToken =>
                ProjectScanModeFrom(decode(resp.next_page)) = scanMode
    /\ (req.page = "first" /\ req.list_mode # "None") =>
          scanMode = req.list_mode

C4_Witness ==
    /\ InScan
    /\ req.page = "next"
    /\ scanMode = "ByNameDescending"
    /\ resp.items # <<>>
    /\ resp.next_page # NoToken

C6_EffectiveLimit ==
    (req.page \in {"first", "next"} /\ resp.status # "MalformedToken") =>
        /\ resp.limit \in 1..MAX_LIMIT
        /\ req.limit = NoLimit => resp.limit = DEFAULT_LIMIT
        /\ req.limit > MAX_LIMIT => resp.limit = MAX_LIMIT
        /\ req.limit \in 1..MAX_LIMIT => resp.limit = req.limit
        /\ Len(resp.items) <= resp.limit
        /\ req.page = "first" => resp.status = "Ok"
        /\ \A l \in Limits :
              Serve(Data, [req EXCEPT !.limit = l]).status = resp.status

C6_Witness ==
    /\ req.page = "first"
    /\ req.limit = MAX_LIMIT + 1
    /\ resp.status = "Ok"
    /\ resp.limit = MAX_LIMIT
    /\ resp.items # <<>>

\* C7: a first-page request without a mode is answered in ByNameAscending
\* and exactly as the first-page request that names ByNameAscending with the
\* same limit: same list_mode, same items, same next token.
C7_DefaultModeIsByNameAscending ==
    (req.page = "first" /\ req.list_mode = "None") =>
        /\ resp.list_mode = "ByNameAscending"
        /\ LET explicit ==
                  Serve(Data, FirstPageRequest("ByNameAscending", req.limit))
           IN /\ resp.list_mode = explicit.list_mode
              /\ resp.items = explicit.items
              /\ resp.next_page = explicit.next_page

C7_Witness ==
    /\ req.page = "first"
    /\ req.list_mode = "None"
    /\ Len(resp.items) >= 2
    /\ Len(resp.items) < Cardinality(Items)
    /\ resp.next_page # NoToken

\* C8: a next-page request whose selector is MtimeName with Ascending order
\* ends in an unsupported-mode error for that request, with no items, and the
\* server keeps answering.
C8_UnsupportedModeIsAnError ==
    (req.page = "next" /\ decode(req.page_token) # MalformedToken
        /\ decode(req.page_token).variant = "MtimeName"
        /\ decode(req.page_token).order = "Ascending") =>
            /\ resp.status = "UnsupportedMode"
            /\ resp.items = <<>>
            /\ resp.next_page = NoToken
            /\ serving

\* C9: a scan that only uses tokens issued by the server never reaches the
\* unsupported-mode branch: every selector page_selector_for builds is
\* Name/Ascending, Name/Descending or MtimeName/Descending, and each of
\* these maps to one of the three modes.
C9_IssuedSelectorsAreSupported ==
    /\ phase # "failed"
    /\ InScan => resp.status = "Ok"
    /\ resp.next_page # NoToken =>
          LET sel == decode(resp.next_page)
          IN /\ <<sel.variant, sel.order>> \in
                    {<<"Name", "Ascending">>, <<"Name", "Descending">>,
                     <<"MtimeName", "Descending">>}
             /\ ProjectScanModeFrom(sel) \in ProjectScanMode
    /\ \A x \in Items, m \in ProjectScanMode :
          ProjectScanModeFrom(page_selector_for(x, m)) \in ProjectScanMode

C9_Witness ==
    /\ InScan
    /\ req.page = "next"
    /\ scanMode = "ByMtimeDescending"
    /\ resp.next_page # NoToken

\* C10: encoding a page selector into a token and decoding the token gives
\* back the same selector: same variant, same direction, same key tuple.
C10_TokenRoundTrip ==
    /\ \A s \in ProjectScanPageSelector : decode(encode(s)) = s
    /\ (resp.status = "Ok" /\ resp.next_page # NoToken) =>
          decode(resp.next_page)
              = page_selector_for(resp.items[Len(resp.items)], resp.list_mode)

C10_Witness ==
    /\ resp.status = "Ok"
    /\ resp.next_page # NoToken
    /\ decode(resp.next_page).variant = "MtimeName"
    /\ decode(resp.next_page).mtime # decode(resp.next_page).name

\* C12: handling a listing request (first page or next page, any limit,
\* answered or failed) leaves the collection unchanged: by_name and by_mtime
\* hold the same entries after the request as before it.
C12_RequestsLeaveCollectionUnchanged ==
    [][(req' # req \/ resp' # resp \/ pages' # pages \/ phase' # phase)
          => (by_name' = by_name /\ by_mtime' = by_mtime)]_vars

C12_Witness ==
    /\ serving
    /\ Items # {}
    /\ req.page = "next"
    /\ resp.status = "Ok"
    /\ resp.items # <<>>
    /\ Len(pages) >= 2

\* the boundary keys tried on the resuming iterators: every name and mtime
\* of the model and one below and one above them
BoundaryNames == 0..(MaxName + 1)

BoundaryMtimes == 0..(MaxMtime + 1)

\* seq lists exactly the items of set, each once, and a later item is always
\* after an earlier one by the key comparison given
ListsExactly(seq, set, Later(_, _)) ==
    /\ Range(seq) = set
    /\ \A i, j \in 1..Len(seq) : i < j => Later(seq[j], seq[i])

NameAfter(x, y) == x.name > y.name

NameBefore(x, y) == x.name < y.name

MtimeNameAfter(x, y) ==
    x.mtime > y.mtime \/ (x.mtime = y.mtime /\ x.name > y.name)

MtimeNameBefore(x, y) == MtimeNameAfter(y, x)

\* C13: for every boundary key, in the collection or not, each resuming
\* iterator yields exactly the items whose key is strictly after the boundary
\* in its direction, in that direction's order, never the boundary item; this
\* is an empty sequence when there is no such item.
C13_ResumeStrictlyAfterBoundary ==
    /\ \A b \in BoundaryNames :
          LET bound == [name |-> b, mtime |-> 0]
          IN /\ ListsExactly(iter_by_name_asc_from(Data, b),
                             {x \in Items : NameAfter(x, bound)}, NameAfter)
             /\ ListsExactly(iter_by_name_desc_from(Data, b),
                             {x \in Items : NameBefore(x, bound)}, NameBefore)
    /\ \A m \in BoundaryMtimes, b \in BoundaryNames :
          LET bound == [name |-> b, mtime |-> m]
          IN /\ ListsExactly(iter_by_mtime_asc_from(Data, m, b),
                             {x \in Items : MtimeNameAfter(x, bound)},
                             MtimeNameAfter)
             /\ ListsExactly(iter_by_mtime_desc_from(Data, m, b),
                             {x \in Items : MtimeNameBefore(x, bound)},
                             MtimeNameBefore)

C13_Witness ==
    /\ req.page = "next"
    /\ resp.status = "Ok"
    /\ decode(req.page_token).variant = "Name"
    /\ decode(req.page_token).order = "Descending"
    /\ decode(req.page_token).name \in DOMAIN by_name
    /\ Len(resp.items) >= 1
    /\ \E k \in DOMAIN by_name : k > decode(req.page_token).name

\* C15: the next selector issued with a page is built from the last item of
\* the page under the effective mode and carries that item's full sort key:
\* the name in the by-name modes, the (mtime, name) pair in
\* ByMtimeDescending; its boundary is the key of an item of the collection.
C15_SelectorCarriesLastItemKey ==
    (resp.status = "Ok" /\ resp.next_page # NoToken) =>
        LET last == resp.items[Len(resp.items)]
            sel == decode(resp.next_page)
        IN /\ sel # MalformedToken
           /\ sel.name = last.name
           /\ sel.name \in DOMAIN by_name
           /\ by_name[sel.name] = last
           /\ resp.list_mode \in {"ByNameAscending", "ByNameDescending"} =>
                 sel.variant = "Name"
           /\ resp.list_mode = "ByMtimeDescending" =>
                 /\ sel.variant = "MtimeName"
                 /\ sel.mtime = last.mtime
                 /\ <<sel.mtime, sel.name>> \in DOMAIN by_mtime
                 /\ by_mtime[<<sel.mtime, sel.name>>] = last

C15_Witness ==
    /\ InScan
    /\ resp.list_mode = "ByMtimeDescending"
    /\ resp.next_page # NoToken
    /\ Len(resp.items) = 2
    /\ resp.items[1].mtime = resp.items[2].mtime

\* C17: the two indexes always describe the same set of projects: by_name
\* maps name to p exactly when by_mtime maps (p.mtime, name) to p; so both
\* indexes list the same items, and the (mtime, name) selector built from any
\* item is a key of by_mtime.
C17_IndexesAgree ==
    /\ \A name \in DOMAIN by_name :
          /\ by_name[name].name = name
          /\ <<by_name[name].mtime, name>> \in DOMAIN by_mtime
          /\ by_mtime[<<by_name[name].mtime, name>>] = by_name[name]
    /\ \A key \in DOMAIN by_mtime :
          /\ by_mtime[key].mtime = key[1]
          /\ key[2] \in DOMAIN by_name
          /\ by_name[key[2]] = by_mtime[key]
    /\ {by_mtime[key] : key \in DOMAIN by_mtime} = Items
    /\ \A x \in Items :
          LET sel == page_selector_for(x, "ByMtimeDescending")
          IN <<sel.mtime, sel.name>> \in DOMAIN by_mtime

C17_Witness ==
    /\ serving
    /\ \E a, b \in Items : a # b /\ a.mtime = b.mtime
    /\ \E a, b \in Items : a.mtime # b.mtime

\* C18: the seeding loop creates 1000 projects before the server starts:
\* when the loop is over, by_name and by_mtime each hold 1000 entries.
C18_ThousandProjectsSeeded ==
    (n = SEED_END) =>
        /\ Cardinality(DOMAIN by_name) = 1000
        /\ Cardinality(DOMAIN by_mtime) = 1000

\* C16: every scan terminates: a caller that starts at the first page and
\* keeps following the returned token reaches a page without a token after
\* finitely many requests, because every page that carries a token adds at
\* least one item not delivered before.
C16_ScanTerminates ==
    /\ [](phase = "following" => Len(pages) <= Cardinality(Items))
    /\ [][(phase = "following" /\ phase' = "following")
             => Len(Flatten(pages')) > Len(Flatten(pages))]_vars
    /\ (phase = "following") ~> (phase = "done")

C16_Witness ==
    /\ phase = "done"
    /\ Cardinality(Items) = 3
    /\ Len(pages) = 4
    /\ scanMode = "ByMtimeDescending"

\* the responses of a scan run alone: first page in the mode asked for,
\* then each token followed, with the limits given
RECURSIVE SoloResponses(_, _)
SoloResponses(mode, limits) ==
    IF Len(limits) = 1
    THEN <<Serve(Data, FirstPageRequest(mode, limits[1]))>>
    ELSE LET before == SoloResponses(mode, SubSeq(limits, 1, Len(limits) - 1))
             token == before[Len(before)].next_page
         IN Append(before,
                   Serve(Data, NextPageRequest(token, limits[Len(limits)])))

BeyondBoundary(sel, x) ==
    LET bound == [name |-> sel.name,
                  mtime |-> IF sel.variant = "MtimeName" THEN sel.mtime ELSE 0]
    IN CASE sel.variant = "Name" /\ sel.order = "Ascending" ->
                NameAfter(x, bound)
         [] sel.variant = "Name" /\ sel.order = "Descending" ->
                NameBefore(x, bound)
         [] sel.variant = "MtimeName" /\ sel.order = "Ascending" ->
                MtimeNameAfter(x, bound)
         [] sel.variant = "MtimeName" /\ sel.order = "Descending" ->
                MtimeNameBefore(x, bound)

\* the number of items of the collection after the starting point of the
\* latest request
Remaining ==
    IF req.page = "first" THEN Cardinality(Items)
    ELSE Cardinality({x \in Items :
                          BeyondBoundary(decode(req.page_token), x)})

\* C14: every page holds exactly min(E, R) items, E the effective limit and
\* R the number of items after the request's starting point; a requested
\* limit above MAX_LIMIT yields exactly MAX_LIMIT items while at least
\* MAX_LIMIT items remain, and no page holds more than E items.
C14_PageSizeIsMinOfLimitAndRemaining ==
    (serving /\ req.page \in {"first", "next"} /\ resp.status = "Ok") =>
        /\ Len(resp.items)
              = IF resp.limit <= Remaining THEN resp.limit ELSE Remaining
        /\ Len(resp.items) <= resp.limit
        /\ (req.limit > MAX_LIMIT /\ Remaining >= MAX_LIMIT) =>
              Len(resp.items) = MAX_LIMIT

C14_Witness ==
    /\ req.page = "next"
    /\ req.limit = MAX_LIMIT + 1
    /\ resp.status = "Ok"
    /\ Remaining >= MAX_LIMIT
    /\ Len(resp.items) = MAX_LIMIT
    /\ scanMode = "ByMtimeDescending"

====
